---- MODULE Spec2Model ----
(***************************************************************************)
(* Model of the filing-to-narrative extraction pipeline of                 *)
(* financial-nlp-engine: html_cleaner.clean_html_content and               *)
(* xbrl_converter.extract_narrative_sections / convert_xbrl_to_text, and  *)
(* of the batches that feed it: sec_scraper.execute_scraping and          *)
(* html_cleaner.clean_all_converted_files.                                *)
(*                                                                         *)
(* Text representation.  A Python str is a sequence of atoms <<c, n>>: the *)
(* character c repeated n times.  n is 1 for every character but the      *)
(* filler letter "z", whose runs are kept run-length encoded so that texts *)
(* longer than the 500/1000 character thresholds stay small.  Texts are    *)
(* kept normalised (no two adjacent "z" atoms), so two texts are equal as  *)
(* atom sequences exactly when they are equal as strings.                  *)
(* Documents are drawn over the alphabet: letters, digits, " ", "\n",      *)
(* "<", ">", "/", "&", ";".                                                *)
(***************************************************************************)
EXTENDS Integers, Sequences, FiniteSets, TLC

\* ------------------------------------------------------------------------
\* Strings
\* ------------------------------------------------------------------------

Filler == "z"

LowerLetters ==
    <<"a","b","c","d","e","f","g","h","i","j","k","l","m","n","o","p","q","r","s","t","u","v","w","x","y","z">>

UpperLetters ==
    <<"A","B","C","D","E","F","G","H","I","J","K","L","M","N","O","P","Q","R","S","T","U","V","W","X","Y","Z">>

DigitChars == {"0","1","2","3","4","5","6","7","8","9"}

Range(s) == {s[i] : i \in 1..Len(s)}

IsLetter(c) == c \in Range(LowerLetters) \cup Range(UpperLetters)

\* str.strip() and \s on the modelled alphabet
Whitespace == {" ", "\n"}

\* a literal string as a text
Str(s) == [i \in 1..Len(s) |-> <<s[i], 1>>]

\* n filler letters
Z(n) == IF n = 0 THEN <<>> ELSE << <<Filler, n>> >>

\* the members of the set S of indices within lo..hi, in increasing order
RECURSIVE SortedIdx(_, _, _)
SortedIdx(S, lo, hi) ==
    IF lo > hi THEN <<>>
    ELSE IF lo = hi THEN (IF lo \in S THEN <<lo>> ELSE <<>>)
    ELSE LET mid == (lo + hi) \div 2
         IN SortedIdx(S, lo, mid) \o SortedIdx(S, mid + 1, hi)

\* the atoms of t at the indices in S, in order
Pick(t, S) ==
    LET idx == SortedIdx(S, 1, Len(t)) IN [k \in 1..Len(idx) |-> t[idx[k]]]

\* number of characters of the atoms lo..hi of t
RECURSIVE SumLen(_, _, _)
SumLen(t, lo, hi) ==
    IF lo > hi THEN 0
    ELSE IF lo = hi THEN t[lo][2]
    ELSE LET mid == (lo + hi) \div 2
         IN SumLen(t, lo, mid) + SumLen(t, mid + 1, hi)

\* len(t)
TLen(t) == SumLen(t, 1, Len(t))

\* merge adjacent filler runs
Norm(t) ==
    LET starts == {k \in 1..Len(t) :
                      ~(k > 1 /\ t[k][1] = Filler /\ t[k - 1][1] = Filler)}
        idx    == SortedIdx(starts, 1, Len(t))
        last(k) == IF k < Len(idx) THEN idx[k + 1] - 1 ELSE Len(t)
    IN [k \in 1..Len(idx) |->
           IF t[idx[k]][1] = Filler THEN <<Filler, SumLen(t, idx[k], last(k))>>
                                    ELSE t[idx[k]]]

\* a + b
Cat(a, b) == Norm(a \o b)

\* t[:k]
Take(t, k) ==
    IF k <= 0 THEN <<>>
    ELSE IF k >= TLen(t) THEN t
    ELSE LET j == CHOOSE m \in 1..Len(t) :
                      SumLen(t, 1, m - 1) < k /\ k <= SumLen(t, 1, m)
         IN Append(SubSeq(t, 1, j - 1), <<t[j][1], k - SumLen(t, 1, j - 1)>>)

\* t[k:]
Drop(t, k) ==
    IF k <= 0 THEN t
    ELSE IF k >= TLen(t) THEN <<>>
    ELSE LET j == CHOOSE m \in 1..Len(t) :
                      SumLen(t, 1, m - 1) <= k /\ k < SumLen(t, 1, m)
         IN << <<t[j][1], SumLen(t, 1, j) - k>> >> \o SubSeq(t, j + 1, Len(t))

\* t[a:b] for 0 <= a, b <= len(t); empty when b <= a
Slice(t, a, b) == IF b <= a THEN <<>> ELSE Take(Drop(t, a), b - a)

\* the literal pat (a sequence of characters, none of them the filler)
\* occurs in t starting at atom i
MatchAt(t, i, pat) ==
    /\ i + Len(pat) - 1 <= Len(t)
    /\ \A j \in 1..Len(pat) : t[i + j - 1] = <<pat[j], 1>>

\* pat in t
Contains(t, pat) == \E i \in 1..Len(t) : MatchAt(t, i, pat)

\* t.find(pat): character offset of the first occurrence, -1 when absent
Find(t, pat) ==
    IF Contains(t, pat)
    THEN LET i == CHOOSE k \in 1..Len(t) :
                      MatchAt(t, k, pat) /\ \A m \in 1..(k - 1) : ~MatchAt(t, m, pat)
         IN TLen(SubSeq(t, 1, i - 1))
    ELSE -1

ToLower(c) ==
    IF c \in Range(UpperLetters)
    THEN LowerLetters[CHOOSE i \in 1..Len(UpperLetters) : UpperLetters[i] = c]
    ELSE c

\* t.lower()
Lower(t) == [i \in 1..Len(t) |-> <<ToLower(t[i][1]), t[i][2]>>]

RECURSIVE LStrip(_)
LStrip(t) == IF t # <<>> /\ t[1][1] \in Whitespace THEN LStrip(Tail(t)) ELSE t

RECURSIVE RStrip(_)
RStrip(t) ==
    IF t # <<>> /\ t[Len(t)][1] \in Whitespace THEN RStrip(SubSeq(t, 1, Len(t) - 1)) ELSE t

\* t.strip()
Strip(t) == RStrip(LStrip(t))

NL == <<"\n", 1>>

SP == <<" ", 1>>

\* t.split('\n'): always at least one piece
Split(t) ==
    LET nl == SortedIdx({k \in 1..Len(t) : t[k] = NL}, 1, Len(t))
    IN [k \in 1..(Len(nl) + 1) |->
           SubSeq(t, IF k = 1 THEN 1 ELSE nl[k - 1] + 1,
                     IF k <= Len(nl) THEN nl[k] - 1 ELSE Len(t))]

\* t.splitlines(): no piece for the empty text, none after a final line break
SplitLines(t) ==
    IF t = <<>> THEN <<>>
    ELSE IF t[Len(t)] = NL THEN Split(SubSeq(t, 1, Len(t) - 1))
         ELSE Split(t)

\* the parts lo..hi with sep between them
RECURSIVE Flatten(_, _, _, _)
Flatten(parts, sep, lo, hi) ==
    IF lo > hi THEN <<>>
    ELSE IF lo = hi THEN parts[lo]
    ELSE LET mid == (lo + hi) \div 2
         IN (Flatten(parts, sep, lo, mid) \o sep) \o Flatten(parts, sep, mid + 1, hi)

\* sep.join(parts); sep is a text
Join(parts, sep) == Norm(Flatten(parts, sep, 1, Len(parts)))

\* any(keyword in t for keyword in kws)
AnyIn(kws, t) == \E k \in 1..Len(kws) : Contains(t, kws[k])

\* ------------------------------------------------------------------------
\* html_cleaner.clean_html_content
\* ------------------------------------------------------------------------

\* index of the first atom at or after i whose character is c; 0 when none
FirstAt(t, c, i) ==
    IF \E k \in i..Len(t) : t[k][1] = c
    THEN CHOOSE k \in i..Len(t) : t[k][1] = c /\ \A m \in i..(k - 1) : t[m][1] # c
    ELSE 0

\* index of the first atom at or after i that is not in class; Len(t)+1 when none
SkipWhile(t, i, class) ==
    IF \E k \in i..Len(t) : t[k][1] \notin class
    THEN CHOOSE k \in i..Len(t) :
             t[k][1] \notin class /\ \A m \in i..(k - 1) : t[m][1] \in class
    ELSE Len(t) + 1

AlnumChars == Range(LowerLetters) \cup Range(UpperLetters) \cup DigitChars

\* the alphabet of the modelled texts
AllChars == AlnumChars \cup {" ", "\n", "<", ">", "/", "&", ";", "#", "-", "'", "\"", "="}

\* the named character references of the modelled alphabet
EntityChar(name) ==
    IF name = Str(<<"a","m","p">>) THEN Str(<<"&">>)
    ELSE IF name = Str(<<"l","t">>) THEN Str(<<"<">>)
    ELSE IF name = Str(<<"g","t">>) THEN Str(<<">">>)
    ELSE Str(<<"&">>) \o name

\* the elements removed by script.decompose()
RawTextElements == {Str(<<"s","c","r","i","p","t">>), Str(<<"s","t","y","l","e">>)}

\* the index of the ">" closing an end tag "</ name >" that starts at k; 0 when
\* no such end tag starts there
EndTagAt(t, k, name) ==
    IF k + 1 <= Len(t) /\ t[k][1] = "<" /\ t[k + 1][1] = "/"
    THEN LET j == SkipWhile(t, k + 2, Whitespace)
             e == j + Len(name)
             f == SkipWhile(t, e, Whitespace)
         IN IF /\ e - 1 <= Len(t)
               /\ Lower(SubSeq(t, j, e - 1)) = name
               /\ f <= Len(t)
               /\ t[f][1] = ">"
            THEN f ELSE 0
    ELSE 0

\* first index after the end tag that closes the raw-text element opened
\* before i; Len(t)+1 when it is never closed (the rest of the input is lost)
RawTextEnd(t, i, name) ==
    IF \E k \in i..Len(t) : EndTagAt(t, k, name) # 0
    THEN EndTagAt(t, CHOOSE k \in i..Len(t) :
                        EndTagAt(t, k, name) # 0
                        /\ \A m \in i..(k - 1) : EndTagAt(t, m, name) = 0,
                  name) + 1
    ELSE Len(t) + 1

\* BeautifulSoup(html_text, 'html.parser'), decompose() of every script and
\* style element, then soup.get_text(): the text nodes of the document with
\* tags dropped and character references decoded.
RECURSIVE SoupFrom(_, _, _)
SoupFrom(t, i, acc) ==
    IF i > Len(t) THEN acc
    ELSE IF t[i][1] \notin {"<", "&"}
    THEN \* character data up to the next "<" or "&"
         LET j == SkipWhile(t, i, AllChars \ {"<", "&"})
         IN SoupFrom(t, j, acc \o SubSeq(t, i, j - 1))
    ELSE IF t[i][1] = "<"
    THEN LET gt  == FirstAt(t, ">", i + 1)
             nxt == IF i + 1 <= Len(t) THEN t[i + 1][1] ELSE ""
         IN IF IsLetter(nxt) \/ nxt = "/"
            THEN IF gt = 0
                 THEN \* unterminated tag: text up to the next "<"
                      LET lt == FirstAt(t, "<", i + 1)
                          k  == IF lt = 0 THEN i + 1 ELSE lt
                      IN SoupFrom(t, k, acc \o SubSeq(t, i, k - 1))
                 ELSE IF IsLetter(nxt)
                      THEN LET j    == SkipWhile(t, i + 1, AllChars \ {" ", "\n", "/", ">"})
                               name == Lower(SubSeq(t, i + 1, j - 1))
                               selfclosing == t[gt - 1][1] = "/"
                           IN IF name \in RawTextElements /\ ~selfclosing
                              THEN SoupFrom(t, RawTextEnd(t, gt + 1, name), acc)
                              ELSE SoupFrom(t, gt + 1, acc)
                      ELSE SoupFrom(t, gt + 1, acc)
            ELSE SoupFrom(t, i + 1, Append(acc, t[i]))
    ELSE \* t[i] is "&"
         IF i + 1 <= Len(t) /\ IsLetter(t[i + 1][1])
         THEN LET j    == SkipWhile(t, i + 1, AlnumChars)
                  name == SubSeq(t, i + 1, j - 1)
              IN IF j <= Len(t)
                 THEN SoupFrom(t, IF t[j][1] = ";" THEN j + 1 ELSE j,
                               acc \o EntityChar(name))
                 ELSE \* reference cut off by the end of the input
                      IF TLen(name) = 1 THEN acc \o name
                                        ELSE (acc \o <<t[i]>>) \o name
         ELSE SoupFrom(t, i + 1, Append(acc, t[i]))

Soup(t) == Norm(SoupFrom(t, 1, <<>>))

\* re.sub(r'[ \t]+', ' ', t): the first space of every run is kept
CollapseSpaces(t) ==
    Pick(t, {k \in 1..Len(t) : ~(t[k] = SP /\ k > 1 /\ t[k - 1] = SP)})

\* index of the first occurrence of the literal pat at or after atom i; 0 when none
NextMatch(t, pat, i) ==
    IF \E k \in i..Len(t) : MatchAt(t, k, pat)
    THEN CHOOSE k \in i..Len(t) :
             MatchAt(t, k, pat) /\ \A m \in i..(k - 1) : ~MatchAt(t, m, pat)
    ELSE 0

\* re.sub(pat, rep, t) for a literal pattern
RECURSIVE SubLitFrom(_, _, _, _, _)
SubLitFrom(t, pat, rep, i, acc) ==
    LET j == NextMatch(t, pat, i)
    IN IF j = 0 THEN acc \o SubSeq(t, i, Len(t))
       ELSE SubLitFrom(t, pat, rep, j + Len(pat),
                       (acc \o SubSeq(t, i, j - 1)) \o Str(rep))

SubLit(t, pat, rep) == Norm(SubLitFrom(t, pat, rep, 1, <<>>))

\* index of the first atom at or after i that is open and has a ">" after it
NextSpan(t, open, i) ==
    IF \E k \in i..Len(t) : t[k][1] = open /\ FirstAt(t, ">", k + 1) # 0
    THEN CHOOSE k \in i..Len(t) :
             /\ t[k][1] = open /\ FirstAt(t, ">", k + 1) # 0
             /\ \A m \in i..(k - 1) : ~(t[m][1] = open /\ FirstAt(t, ">", m + 1) # 0)
    ELSE 0

\* re.sub(open + r'[^>]*>', '', t) for open = "<" and open = "/"
RECURSIVE DelSpanFrom(_, _, _, _)
DelSpanFrom(t, open, i, acc) ==
    LET j == NextSpan(t, open, i)
    IN IF j = 0 THEN acc \o SubSeq(t, i, Len(t))
       ELSE DelSpanFrom(t, open, FirstAt(t, ">", j + 1) + 1,
                        acc \o SubSeq(t, i, j - 1))

DelSpan(t, open) == Norm(DelSpanFrom(t, open, 1, <<>>))

\* the stripped non-empty lines of text
KeptLines(ls) ==
    SelectSeq([k \in 1..Len(ls) |-> Strip(ls[k])], LAMBDA l : l # <<>>)

\* the entity substitutions of lines 46-55, in order
DecodeEntities(t) ==
    LET t1  == SubLit(t,   <<"&","n","b","s","p",";">>, <<" ">>)
        t2  == SubLit(t1,  <<"&","a","m","p",";">>, <<"&">>)
        t3  == SubLit(t2,  <<"&","l","t",";">>, <<"<">>)
        t4  == SubLit(t3,  <<"&","g","t",";">>, <<">">>)
        t5  == SubLit(t4,  <<"&","q","u","o","t",";">>, <<"\"">>)
        t6  == SubLit(t5,  <<"&","a","p","o","s",";">>, <<"'">>)
        t7  == SubLit(t6,  <<"&","#","1","6","0",";">>, <<" ">>)
        t8  == SubLit(t7,  <<"&","#","8","2","1","7",";">>, <<"'">>)
        t9  == SubLit(t8,  <<"&","#","8","2","1","1",";">>, <<"-">>)
        t10 == SubLit(t9,  <<"&","#","8","2","1","2",";">>, <<"-","-">>)
    IN t10

\* the removal of HTML-like patterns of lines 58-61, in order
RemoveArtifacts(t) ==
    LET t1 == DelSpan(t, "<")
        t2 == DelSpan(t1, "/")
        t3 == SubLit(t2, <<"#","1","6","0",";">>, <<" ">>)
        t4 == SubLit(t3, <<"b","r"," ","c","l","e","a","r","=","\"","n","o","n","e","\"">>, <<>>)
    IN t4

\* lines 23-30
ParseHtml(t) == Soup(t)

\* lines 33-43
FilterLines(t) == CollapseSpaces(Join(KeptLines(SplitLines(t)), <<NL>>))

\* lines 64-67
FinalStrip(t) == Strip(Strip(CollapseSpaces(t)))

\* ------------------------------------------------------------------------
\* xbrl_converter: constants of extract_narrative_sections
\* ------------------------------------------------------------------------

narrative_keywords ==
    << <<"m","a","n","a","g","e","m","e","n","t","'","s"," ","d","i","s","c","u","s","s","i","o","n">>,
       <<"r","i","s","k"," ","f","a","c","t","o","r","s">>,
       <<"b","u","s","i","n","e","s","s"," ","o","v","e","r","v","i","e","w">>,
       <<"r","e","s","u","l","t","s"," ","o","f"," ","o","p","e","r","a","t","i","o","n","s">>,
       <<"l","i","q","u","i","d","i","t","y"," ","a","n","d"," ","c","a","p","i","t","a","l">>,
       <<"f","o","r","w","a","r","d","-","l","o","o","k","i","n","g"," ","s","t","a","t","e","m","e","n","t","s">>,
       <<"c","o","v","i","d","-","1","9">>,
       <<"p","a","n","d","e","m","i","c">>,
       <<"r","e","v","e","n","u","e">>,
       <<"e","a","r","n","i","n","g","s">>,
       <<"g","r","o","w","t","h">>,
       <<"o","u","t","l","o","o","k">>,
       <<"i","t","e","m"," ","1">>,
       <<"i","t","e","m"," ","1","a">>,
       <<"i","t","e","m"," ","7">>,
       <<"i","t","e","m"," ","7","a">> >>

stop_words ==
    << <<"i","t","e","m"," ">>,
       <<"p","a","r","t"," ">>,
       <<"e","x","h","i","b","i","t">>,
       <<"t","a","b","l","e"," ","o","f"," ","c","o","n","t","e","n","t","s">> >>

chunk_keywords ==
    << <<"r","e","v","e","n","u","e">>,
       <<"e","a","r","n","i","n","g","s">>,
       <<"g","r","o","w","t","h">>,
       <<"p","r","o","f","i","t">>,
       <<"l","o","s","s">>,
       <<"b","u","s","i","n","e","s","s">>,
       <<"c","o","m","p","a","n","y">>,
       <<"f","i","n","a","n","c","i","a","l">>,
       <<"r","e","s","u","l","t","s">>,
       <<"o","p","e","r","a","t","i","o","n","s">> >>

DocOpen == <<"<","D","O","C","U","M","E","N","T",">">>

DocClose == <<"<","/","D","O","C","U","M","E","N","T",">">>

\* minimum length of a keyword-derived section (exclusive)
MinSectionLen == 500

\* a section is closed once it holds more than this many lines
MaxSectionLines == 50

\* the fallback runs when the scan found fewer sections than this
FallbackBelow == 3

\* minimum length of a fallback chunk (exclusive)
MinChunkLen == 1000

\* length of the prefix that identifies a section
PrefixLen == 200

\* the number of sections returned at most
MaxSections == 5

\* only the opening marker is tested; the text runs to the end when the
\* closing marker is absent
isolated_open_only(c) ==
    IF Contains(c, DocOpen)
    THEN Slice(c, Find(c, DocOpen),
               IF Find(c, DocClose) = -1 THEN TLen(c) ELSE Find(c, DocClose))
    ELSE c

\* the closing marker is included
isolated_inclusive(c) ==
    IF Contains(c, DocOpen) /\ Contains(c, DocClose)
    THEN Slice(c, Find(c, DocOpen), Find(c, DocClose) + Len(DocClose))
    ELSE c

\* lines 20-26: the text between the document markers
isolated(c) ==
    IF Contains(c, DocOpen) /\ Contains(c, DocClose)
    THEN LET start == Find(c, DocOpen)
             end   == Find(c, DocClose)
         IN IF start # -1 /\ end # -1 THEN Slice(c, start, end) ELSE c
    ELSE c

\* '\n'.join instead of ' '.join
joined_by_newline(section) == Join(section, <<NL>>)

\* ' '.join(current_section)
Joined(section) == Join(section, <<SP>>)

\* a line with a stop keyword does not start a section
is_trigger_unless_stop(line) ==
    AnyIn(narrative_keywords, Lower(line)) /\ ~AnyIn(stop_words, Lower(line))

\* line 63
IsTrigger(line) == AnyIn(narrative_keywords, Lower(line))

\* line 80
IsStop(line) == AnyIn(stop_words, Lower(line))

\* else: instead of elif in_narrative:
accumulates_always(narrative) == TRUE

\* line 74: elif in_narrative
accumulates(narrative) == narrative

\* the section is closed by a stop keyword only
closes_on_stop_only(section, line) == IsStop(line)

\* the section is closed when it reaches the line limit
closes_at_limit(section, line) ==
    Len(section) >= MaxSectionLines \/ IsStop(line)

\* lines 79-80: the section, line included, is to be closed
closes(section, line) ==
    Len(section) > MaxSectionLines \/ IsStop(line)

\* does a separator of re.split(r'\n\s*\n', t) start at atom i
SepStartsAt(t, i) ==
    /\ t[i] = NL
    /\ \E j \in (i + 1)..Len(t) :
          t[j] = NL /\ \A m \in (i + 1)..(j - 1) : t[m][1] \in Whitespace

\* re.split(r'\n\s*\n', t), scanning from atom from
RECURSIVE ChunksFrom(_, _, _)
ChunksFrom(t, from, acc) ==
    IF \E i \in from..Len(t) : SepStartsAt(t, i)
    THEN LET i == CHOOSE k \in from..Len(t) :
                      SepStartsAt(t, k) /\ \A m \in from..(k - 1) : ~SepStartsAt(t, m)
             w == SkipWhile(t, i, Whitespace)
             e == CHOOSE k \in (i + 1)..(w - 1) :
                      t[k] = NL /\ \A m \in (k + 1)..(w - 1) : t[m] # NL
         IN ChunksFrom(t, e + 1, Append(acc, SubSeq(t, from, i - 1)))
    ELSE Append(acc, SubSeq(t, from, Len(t)))

SplitChunks(t) == ChunksFrom(t, 1, <<>>)

\* line 98
ChunkQualifies(chunk) ==
    TLen(chunk) > MinChunkLen /\ AnyIn(chunk_keywords, Lower(chunk))

CharTable ==
    LowerLetters \o UpperLetters
        \o <<"0","1","2","3","4","5","6","7","8","9">>
        \o <<" ", "\n", "<", ">", "/", "&", ";", "#", "-", "'", "\"", "=">>

Code(c) == CHOOSE k \in 1..Len(CharTable) : CharTable[k] = c

\* hash(s): an integer computed from the characters of s
RECURSIVE HashFrom(_, _, _)
HashFrom(t, k, h) ==
    IF k > Len(t) THEN h
    ELSE HashFrom(t, k + 1, (h * 131 + Code(t[k][1]) * 1009 + t[k][2]) % 1000003)

Hash(t) == HashFrom(t, 1, 7)

\* the whole section is hashed instead of its prefix
section_hash_whole(section) == Hash(section)

\* line 108
section_hash(section) == Hash(Take(section, PrefixLen))

\* every section counts as new
is_new_always(section, seen_hashes) == TRUE

\* line 109
is_new(section, seen_hashes) == section_hash(section) \notin seen_hashes

\* any non-empty buffer is emitted
long_enough_nonempty(section) == TLen(Joined(section)) > 0

\* lines 65, 81, 88: len(' '.join(current_section)) > 500
long_enough(section) == TLen(Joined(section)) > MinSectionLen

\* the fallback runs only when the scan found nothing
needs_fallback_if_none(sections) == Len(sections) = 0

\* line 93
needs_fallback(sections) == Len(sections) < FallbackBelow

\* nothing is cut off
limited_not(sections) == sections

\* the last sections are kept instead of the first
limited_last(sections) ==
    SubSeq(sections,
           IF Len(sections) <= MaxSections THEN 1 ELSE Len(sections) - MaxSections + 1,
           Len(sections))

\* line 113: unique_sections[:5]
limited(sections) ==
    SubSeq(sections, 1, IF Len(sections) < MaxSections THEN Len(sections)
                                                       ELSE MaxSections)

\* a report is written whatever was found
has_sections_always(sections) == TRUE

\* line 142
has_sections(sections) == sections # <<>>

\* ------------------------------------------------------------------------
\* Input documents
\* ------------------------------------------------------------------------

\* pieces per document of the general family
MaxPieces == 3

\* sections per document of the many-sections family
MaxDocSections == 7

\* a trigger line longer than MinSectionLen, with a tag and a capital letter
PRevenue == Str(<<"<","b",">","R","e","v","e","n","u","e","<","/","b",">"," ">>) \o Z(600)

\* a stop line
PExhibit == Str(<<"e","x","h","i","b","i","t">>)

\* a line that is empty once the artifacts are removed
PSlash == Str(<<"/",">">>)

\* a line longer than MinChunkLen with a chunk keyword and no trigger keyword
PProfit == Str(<<"p","r","o","f","i","t"," ">>) \o Z(1000)

\* a short line with a trigger keyword, a stop keyword and a character reference
PItem == Str(<<"I","t","e","m"," ","1"," ","&","a","m","p",";"," ">>) \o Z(2)

\* MaxSectionLines short lines
PBlock == Join([k \in 1..MaxSectionLines |-> Z(12)], <<NL>>)

Pieces ==
    { PRevenue, PExhibit, PSlash, PProfit, PItem, PBlock,
      Str(DocOpen), Str(DocClose) }

SeqsUpTo(S, n) == UNION {[1..k -> S] : k \in 0..n}

\* documents of up to MaxPieces lines
GeneralDocs == {Join(ps, <<NL>>) : ps \in SeqsUpTo(Pieces, MaxPieces)}

\* the k-th of a family of trigger lines with pairwise different prefixes
SectionLine(k) == Cat(Z(k), Str(<<" ","r","e","v","e","n","u","e"," ">>) \o Z(600))

\* documents of n different sections, the dup-th repeated at the end
ManySectionDocs ==
    { Join([k \in 1..(n + (IF dup = 0 THEN 0 ELSE 1)) |->
                IF k <= n THEN SectionLine(k) ELSE SectionLine(dup)], <<NL>>) :
        n \in 0..MaxDocSections, dup \in 0..MaxDocSections }

\* a header line without keywords
PHeader == Str(<<"A","n","n","u","a","l"," ","f","i","l","i","n","g">>)

\* lines with the trigger keyword 'risk factors', the second with a stop
\* keyword too
RiskLines ==
    { Str(<<"R","i","s","k"," ","F","a","c","t","o","r","s">>),
      Str(<<"I","t","e","m"," ","1","A",
            " ","R","i","s","k"," ","F","a","c","t","o","r","s">>) }

\* texts of more than MinSectionLen characters without trigger or stop
\* keywords: one line, two lines, one line with a chunk keyword that is
\* longer than MinChunkLen, and more than MaxSectionLines lines of which the
\* first MaxSectionLines are too short together
RiskTexts ==
    { Z(600),
      Join(<<Z(300), Z(300)>>, <<NL>>),
      Str(<<"o","u","r"," ","c","o","m","p","a","n","y"," ">>) \o Z(1000),
      Join([k \in 1..(MaxSectionLines + 10) |-> Z(8)], <<NL>>) }

\* a header, a 'risk factors' line and a text between the document markers
SingleTriggerDocs ==
    { Join(<<Str(DocOpen), PHeader, risk, body, Str(DocClose)>>, <<NL>>) :
        risk \in RiskLines, body \in RiskTexts }

Documents == GeneralDocs \cup ManySectionDocs \cup SingleTriggerDocs

\* ------------------------------------------------------------------------
\* convert_xbrl_to_text / extract_narrative_sections as a state machine
\* ------------------------------------------------------------------------

VARIABLES
    file_content,        \* the text of input_file
    pc,                  \* position in convert_xbrl_to_text
    html_text,           \* clean_html_content: its argument
    text,                \* clean_html_content: text
    cpc,                 \* position in clean_html_content
    first_output,        \* what the first of two applications returned
    content,             \* extract_narrative_sections: content
    cleaned_content,
    lines,
    i,                   \* index of the next line of the scan (1-based)
    current_section,
    in_narrative,
    narrative_sections,
    chunks,              \* the fallback's chunks
    ci,                  \* index of the next chunk
    unique_sections,
    seen,
    si,                  \* index of the next section of the dedup loop
    result,              \* the list extract_narrative_sections returned
    report,              \* what was written to output_file, <<>> if not opened
    error,               \* "none", or the exception that was raised
    sc,                  \* position in execute_scraping / clean_all_converted_files
    form_types,          \* execute_scraping: form_types
    fti,                 \* index of the form type being scraped
    max_filings,
    ticker_arg,          \* execute_scraping: ticker, "" for None
    ticker,              \* ticker of the filing loop that is running
    response,            \* what the registry answered to the last index request
    filings,
    fi,                  \* index of the filing (or file) of the running loop
    files,               \* the files of output_dir
    saved_files,
    all_saved_files,
    events,              \* the requests sent and the delays slept, in order
    failures,            \* the kinds of failure that have happened
    converted_files      \* clean_all_converted_files: number of files listed

vars ==
    << file_content, pc, html_text, text, cpc, first_output, content, cleaned_content, lines, i, current_section,
       in_narrative, narrative_sections, chunks, ci, unique_sections, seen, si,
       result, report, error, sc, form_types, fti, max_filings, ticker_arg, ticker,
       response, filings, fi, files, saved_files, all_saved_files, events,
       failures, converted_files >>

pipeline_vars ==
    << file_content, pc, html_text, text, cpc, first_output, content,
       cleaned_content, lines, i, current_section, in_narrative,
       narrative_sections, chunks, ci, unique_sections, seen, si, result, report,
       error >>

scrape_vars ==
    << sc, form_types, fti, max_filings, ticker_arg, ticker, response, filings, fi,
       files, saved_files, all_saved_files, events, failures, converted_files >>

\* no batch is running
ScrapeIdle ==
    /\ sc = "off"
    /\ form_types = <<>>
    /\ fti = 1
    /\ max_filings = 0
    /\ ticker_arg = ""
    /\ ticker = ""
    /\ response = [kind |-> "none", forms |-> <<>>, zipped |-> 0]
    /\ filings = <<>>
    /\ fi = 1
    /\ files = {}
    /\ saved_files = <<>>
    /\ all_saved_files = <<>>
    /\ events = <<>>
    /\ failures = {}
    /\ converted_files = 0

clean_vars == << html_text, text, cpc, first_output >>

scan_vars == << lines, i, current_section, in_narrative >>

extract_vars ==
    << file_content, content, cleaned_content, lines, i, current_section,
       in_narrative, narrative_sections, chunks, ci, unique_sections, seen, si,
       result, report, error >>

fallback_vars == << chunks, ci >>

dedup_vars == << unique_sections, seen, si >>

Init ==
    /\ file_content \in Documents
    /\ pc = "read"
    /\ html_text = <<>>
    /\ text = <<>>
    /\ cpc = "idle"
    /\ first_output = <<>>
    /\ content = <<>>
    /\ cleaned_content = <<>>
    /\ lines = <<>>
    /\ i = 1
    /\ current_section = <<>>
    /\ in_narrative = FALSE
    /\ narrative_sections = <<>>
    /\ chunks = <<>>
    /\ ci = 1
    /\ unique_sections = <<>>
    /\ seen = {}
    /\ si = 1
    /\ result = <<>>
    /\ report = <<>>
    /\ error = "none"
    /\ ScrapeIdle

\* lines 17-18: the file is read
ReadFile ==
    /\ pc = "read"
    /\ content' = file_content
    /\ pc' = "isolate"
    /\ UNCHANGED << file_content, clean_vars, cleaned_content, scan_vars, narrative_sections,
                    fallback_vars, dedup_vars, result, report, error >>
    /\ UNCHANGED scrape_vars

\* lines 17-18 and 115-117: open() or read() raises, the handler returns []
ReadError ==
    /\ pc = "read"
    /\ error' = "read"
    /\ result' = <<>>
    /\ pc' = "returned"
    /\ UNCHANGED << file_content, clean_vars, content, cleaned_content, scan_vars,
                    narrative_sections, fallback_vars, dedup_vars, report >>
    /\ UNCHANGED scrape_vars

\* lines 20-26
Isolate ==
    /\ pc = "isolate"
    /\ content' = isolated(content)
    /\ pc' = "clean"
    /\ UNCHANGED << file_content, clean_vars, cleaned_content, scan_vars, narrative_sections,
                    fallback_vars, dedup_vars, result, report, error >>
    /\ UNCHANGED scrape_vars

\* the cleaner is given the text as read, not what the isolation left of it
clean_raw_document ==
    /\ pc = "clean"
    /\ html_text' = file_content
    /\ text' = <<>>
    /\ cpc' = "parse"
    /\ pc' = "cleaning"
    /\ UNCHANGED << first_output, extract_vars >>
    /\ UNCHANGED scrape_vars

\* line 29: clean_html_content(content) is called
Clean ==
    /\ pc = "clean"
    /\ html_text' = content
    /\ text' = <<>>
    /\ cpc' = "parse"
    /\ pc' = "cleaning"
    /\ UNCHANGED << first_output, extract_vars >>
    /\ UNCHANGED scrape_vars

\* html_cleaner lines 23-30
CleanParse ==
    /\ cpc = "parse"
    /\ text' = ParseHtml(html_text)
    /\ cpc' = "lines"
    /\ UNCHANGED << pc, html_text, first_output, extract_vars >>
    /\ UNCHANGED scrape_vars

\* html_cleaner lines 33-43
CleanLines ==
    /\ cpc = "lines"
    /\ text' = FilterLines(text)
    /\ cpc' = "entities"
    /\ UNCHANGED << pc, html_text, first_output, extract_vars >>
    /\ UNCHANGED scrape_vars

\* html_cleaner lines 46-55
CleanEntities ==
    /\ cpc = "entities"
    /\ text' = DecodeEntities(text)
    /\ cpc' = "artifacts"
    /\ UNCHANGED << pc, html_text, first_output, extract_vars >>
    /\ UNCHANGED scrape_vars

\* html_cleaner lines 58-61
CleanArtifacts ==
    /\ cpc = "artifacts"
    /\ text' = RemoveArtifacts(text)
    /\ cpc' = "strip"
    /\ UNCHANGED << pc, html_text, first_output, extract_vars >>
    /\ UNCHANGED scrape_vars

\* html_cleaner lines 64-67
CleanStrip ==
    /\ cpc = "strip"
    /\ text' = FinalStrip(text)
    /\ cpc' = "return"
    /\ UNCHANGED << pc, html_text, first_output, extract_vars >>
    /\ UNCHANGED scrape_vars

clean_html_content ==
    \/ CleanParse
    \/ CleanLines
    \/ CleanEntities
    \/ CleanArtifacts
    \/ CleanStrip

\* lines 29-35: the cleaned text is split into lines
StartScan ==
    /\ pc = "cleaning"
    /\ cpc = "return"
    /\ cleaned_content' = text
    /\ lines' = Split(text)
    /\ i' = 1
    /\ current_section' = <<>>
    /\ in_narrative' = FALSE
    /\ narrative_sections' = <<>>
    /\ cpc' = "idle"
    /\ pc' = "scan"
    /\ UNCHANGED << file_content, html_text, text, first_output, content,
                    fallback_vars, dedup_vars, result, report, error >>
    /\ UNCHANGED scrape_vars

\* lines 57-85: one iteration of the loop over the lines
ScanLine ==
    /\ pc = "scan"
    /\ i <= Len(lines)
    /\ LET line == Strip(lines[i])
       IN IF line = <<>>
          THEN UNCHANGED << current_section, in_narrative, narrative_sections >>
          ELSE IF IsTrigger(line)
          THEN /\ narrative_sections' =
                     IF current_section # <<>> /\ long_enough(current_section)
                     THEN Append(narrative_sections, Joined(current_section))
                     ELSE narrative_sections
               /\ current_section' = <<line>>
               /\ in_narrative' = TRUE
          ELSE IF accumulates(in_narrative)
          THEN LET appended == Append(current_section, line)
               IN IF closes(appended, line)
                  THEN /\ narrative_sections' =
                             IF long_enough(appended)
                             THEN Append(narrative_sections, Joined(appended))
                             ELSE narrative_sections
                       /\ current_section' = <<>>
                       /\ in_narrative' = FALSE
                  ELSE /\ current_section' = appended
                       /\ UNCHANGED << in_narrative, narrative_sections >>
          ELSE UNCHANGED << current_section, in_narrative, narrative_sections >>
    /\ i' = i + 1
    /\ UNCHANGED << file_content, clean_vars, pc, content, cleaned_content, lines,
                    fallback_vars, dedup_vars, result, report, error >>
    /\ UNCHANGED scrape_vars

\* the open section is emitted whatever its length
final_section_unmeasured ==
    /\ pc = "scan"
    /\ i > Len(lines)
    /\ narrative_sections' =
          IF current_section # <<>>
          THEN Append(narrative_sections, Joined(current_section))
          ELSE narrative_sections
    /\ pc' = "fallback"
    /\ UNCHANGED << file_content, clean_vars, content, cleaned_content, scan_vars,
                    fallback_vars, dedup_vars, result, report, error >>
    /\ UNCHANGED scrape_vars

\* lines 87-90: the section still open after the last line
FinalSection ==
    /\ pc = "scan"
    /\ i > Len(lines)
    /\ narrative_sections' =
          IF current_section # <<>> /\ long_enough(current_section)
          THEN Append(narrative_sections, Joined(current_section))
          ELSE narrative_sections
    /\ pc' = "fallback"
    /\ UNCHANGED << file_content, clean_vars, content, cleaned_content, scan_vars,
                    fallback_vars, dedup_vars, result, report, error >>
    /\ UNCHANGED scrape_vars

\* lines 93-95: the fallback is entered or skipped
FallbackCheck ==
    /\ pc = "fallback"
    /\ IF needs_fallback(narrative_sections)
       THEN /\ chunks' = SplitChunks(cleaned_content)
            /\ ci' = 1
            /\ pc' = "chunks"
       ELSE /\ pc' = "dedup"
            /\ UNCHANGED fallback_vars
    /\ UNCHANGED << file_content, clean_vars, content, cleaned_content, scan_vars,
                    narrative_sections, dedup_vars, result, report, error >>
    /\ UNCHANGED scrape_vars

\* lines 96-102: one iteration of the loop over the chunks
FallbackChunk ==
    /\ pc = "chunks"
    /\ ci <= Len(chunks)
    /\ LET chunk == Strip(chunks[ci])
       IN narrative_sections' =
              IF ChunkQualifies(chunk) THEN Append(narrative_sections, chunk)
                                       ELSE narrative_sections
    /\ ci' = ci + 1
    /\ UNCHANGED << file_content, clean_vars, pc, content, cleaned_content, scan_vars, chunks,
                    dedup_vars, result, report, error >>
    /\ UNCHANGED scrape_vars

FallbackEnd ==
    /\ pc = "chunks"
    /\ ci > Len(chunks)
    /\ pc' = "dedup"
    /\ UNCHANGED << file_content, clean_vars, content, cleaned_content, scan_vars,
                    narrative_sections, fallback_vars, dedup_vars, result, report,
                    error >>
    /\ UNCHANGED scrape_vars

\* lines 105-111: one iteration of the loop over the candidate sections
DedupSection ==
    /\ pc = "dedup"
    /\ si <= Len(narrative_sections)
    /\ LET section == narrative_sections[si]
       IN IF is_new(section, seen)
          THEN /\ seen' = seen \cup {section_hash(section)}
               /\ unique_sections' = Append(unique_sections, section)
          ELSE UNCHANGED << seen, unique_sections >>
    /\ si' = si + 1
    /\ UNCHANGED << file_content, clean_vars, pc, content, cleaned_content, scan_vars,
                    narrative_sections, fallback_vars, result, report, error >>
    /\ UNCHANGED scrape_vars

\* line 113
ReturnSections ==
    /\ pc = "dedup"
    /\ si > Len(narrative_sections)
    /\ result' = limited(unique_sections)
    /\ pc' = "returned"
    /\ UNCHANGED << file_content, clean_vars, content, cleaned_content, scan_vars,
                    narrative_sections, fallback_vars, dedup_vars, report, error >>
    /\ UNCHANGED scrape_vars

\* lines 142-144: nothing to write
SkipDocument ==
    /\ pc = "returned"
    /\ ~has_sections(result)
    /\ pc' = "done"
    /\ UNCHANGED << file_content, clean_vars, content, cleaned_content, scan_vars,
                    narrative_sections, fallback_vars, dedup_vars, result, report,
                    error >>
    /\ UNCHANGED scrape_vars

\* lines 148-152: the header and the banner
ReportHeader ==
    << [kind |-> "source"], [kind |-> "rule", char |-> "=", width |-> 60],
       [kind |-> "blank"], [kind |-> "banner"],
       [kind |-> "rule", char |-> "=", width |-> 50], [kind |-> "blank"] >>

\* enumerate() counts from 0
section_block_from_zero(k, section) ==
    << [kind |-> "label", number |-> k - 1],
       [kind |-> "rule", char |-> "-", width |-> 30],
       [kind |-> "text", text |-> section],
       [kind |-> "blank"] >>

\* lines 155-157: the block of section k
SectionBlock(k, section) ==
    << [kind |-> "label", number |-> k],
       [kind |-> "rule", char |-> "-", width |-> 30],
       [kind |-> "text", text |-> section],
       [kind |-> "blank"] >>

RECURSIVE ReportBlocks(_, _)
ReportBlocks(sections, k) ==
    IF k > Len(sections) THEN <<>>
    ELSE SectionBlock(k, sections[k]) \o ReportBlocks(sections, k + 1)

\* lines 146-160: the report is written
WriteReport ==
    /\ pc = "returned"
    /\ has_sections(result)
    /\ report' = ReportHeader \o ReportBlocks(result, 1)
    /\ pc' = "done"
    /\ UNCHANGED << file_content, clean_vars, content, cleaned_content, scan_vars,
                    narrative_sections, fallback_vars, dedup_vars, result, error >>
    /\ UNCHANGED scrape_vars

\* line 147: open() of the output file raises; nothing catches it
WriteError ==
    /\ pc = "returned"
    /\ has_sections(result)
    /\ error' = "write"
    /\ pc' = "raised"
    /\ UNCHANGED << file_content, clean_vars, content, cleaned_content, scan_vars,
                    narrative_sections, fallback_vars, dedup_vars, result, report >>
    /\ UNCHANGED scrape_vars

Next ==
    \/ ReadFile
    \/ ReadError
    \/ Isolate
    \/ Clean
    \/ clean_html_content
    \/ StartScan
    \/ ScanLine
    \/ FinalSection
    \/ FallbackCheck
    \/ FallbackChunk
    \/ FallbackEnd
    \/ DedupSection
    \/ ReturnSections
    \/ SkipDocument
    \/ WriteReport
    \/ WriteError

Spec == Init /\ [][Next]_vars

\* ------------------------------------------------------------------------
\* clean_html_content applied to its own output
\* ------------------------------------------------------------------------

MaxTokens == 4

Tokens ==
    { Str(<<"a">>), Str(<<" ">>), Str(<<"\n">>), Str(<<"/", ">">>),
      Str(<<"&", "a", "m", "p", ";">>), Str(<<"a", "m", "p", ";">>),
      Str(<<"<", "b", ">">>), Str(<<"<", "s", "t", "y", "l", "e", ">">>) }

\* markup of up to MaxTokens tokens
CleanInputs == {Join(ts, <<>>) : ts \in SeqsUpTo(Tokens, MaxTokens)}

InitClean ==
    /\ html_text \in CleanInputs
    /\ text = <<>>
    /\ cpc = "parse"
    /\ pc = "first"
    /\ first_output = <<>>
    /\ file_content = <<>>
    /\ content = <<>>
    /\ cleaned_content = <<>>
    /\ lines = <<>>
    /\ i = 1
    /\ current_section = <<>>
    /\ in_narrative = FALSE
    /\ narrative_sections = <<>>
    /\ chunks = <<>>
    /\ ci = 1
    /\ unique_sections = <<>>
    /\ seen = {}
    /\ si = 1
    /\ result = <<>>
    /\ report = <<>>
    /\ error = "none"
    /\ ScrapeIdle

\* html_cleaner line 67 and line 12: what the first call returned is cleaned again
CleanAgain ==
    /\ pc = "first"
    /\ cpc = "return"
    /\ first_output' = text
    /\ html_text' = text
    /\ text' = <<>>
    /\ cpc' = "parse"
    /\ pc' = "second"
    /\ UNCHANGED extract_vars
    /\ UNCHANGED scrape_vars

\* html_cleaner line 67: the second call returns
CleanedTwice ==
    /\ pc = "second"
    /\ cpc = "return"
    /\ cpc' = "idle"
    /\ pc' = "compared"
    /\ UNCHANGED << html_text, text, first_output, extract_vars >>
    /\ UNCHANGED scrape_vars

NextClean ==
    \/ CleanParse
    \/ CleanLines
    \/ CleanEntities
    \/ CleanArtifacts
    \/ CleanStrip
    \/ CleanAgain
    \/ CleanedTwice

SpecClean == InitClean /\ [][NextClean]_vars

\* ------------------------------------------------------------------------
\* sec_scraper: execute_scraping and its filing loop;
\* html_cleaner: clean_all_converted_files
\* ------------------------------------------------------------------------

MaxForms == 1
MaxEntries == 3
MaxRows == 2
MaxFilings == 2
MaxFiles == 2

Forms == {"10-Q", "10-K"}

Sleep == [kind |-> "sleep", what |-> "delay", form |-> 0, filing |-> 0]
Get(what, form, filing) ==
    [kind |-> "get", what |-> what, form |-> form, filing |-> filing]

\* answers of data.sec.gov/submissions: a refusal, an error status, no answer,
\* a body that is not JSON, a body without recent filings, or the columns of
\* the recent filings, of which zip() reads as many rows as the shortest has
ApiFailures == {"403", "http_error", "network", "bad_json", "no_recent"}
ApiResponses ==
    {[kind |-> k, forms |-> <<>>, zipped |-> 0] : k \in ApiFailures}
    \cup UNION {{[kind |-> "ok", forms |-> fs, zipped |-> n] :
                    n \in {Len(fs), Len(fs) - 1} \cap Nat} :
                 fs \in SeqsUpTo(Forms, MaxEntries)}

\* mutant of below_limit: the cap is tested one entry late
below_limit_inclusive(count, limit) == count <= limit

below_limit(count, limit) == count < limit

RECURSIVE api_loop(_, _, _, _, _)
api_loop(resp, k, form_type, limit, acc) ==
    IF k > resp.zipped THEN acc
    ELSE api_loop(resp, k + 1, form_type, limit,
             IF resp.forms[k] = form_type /\ below_limit(Len(acc), limit)
             THEN Append(acc, [form |-> resp.forms[k], entry |-> k, url |-> TRUE])
             ELSE acc)

get_filings_api(resp, form_type, limit) ==
    IF resp.kind = "ok" THEN api_loop(resp, 1, form_type, limit, <<>>) ELSE <<>>

\* answers of cgi-bin/browse-edgar: a refusal, an error, a page without the
\* table, or the table's rows: with a link, without one, or with too few cells
ListingFailures == {"403", "error", "no_table"}
RowKinds == {"link", "nolink", "short"}
ListingResponses ==
    {[kind |-> k, rows |-> <<>>] : k \in ListingFailures}
    \cup {[kind |-> "ok", rows |-> rs] : rs \in SeqsUpTo(RowKinds, MaxRows)}

RECURSIVE listing_loop(_, _, _, _, _)
listing_loop(rows, k, form_type, limit, acc) ==
    IF k > Len(rows) \/ k - 1 >= limit THEN acc
    ELSE listing_loop(rows, k + 1, form_type, limit,
             IF rows[k] # "short"
             THEN Append(acc, [form |-> form_type, entry |-> k,
                               url |-> rows[k] = "link"])
             ELSE acc)

get_filings(resp, form_type, limit) ==
    IF resp.kind = "ok" THEN listing_loop(resp.rows, 1, form_type, limit, <<>>)
    ELSE <<>>

Temp(form, k) == <<"html", form, k>>
TextFile(form, k) == <<"txt", form, k>>

\* mutant of handled: only I/O errors are caught
handled_io_only(failure) == failure \in {"read", "write"}

\* the filing loop's handler: except Exception
handled(failure) == failure \in {"read", "extract", "write", "remove"}

InitScrape ==
    /\ file_content = <<>>
    /\ pc = "off"
    /\ html_text = <<>>
    /\ text = <<>>
    /\ cpc = "idle"
    /\ first_output = <<>>
    /\ content = <<>>
    /\ cleaned_content = <<>>
    /\ lines = <<>>
    /\ i = 1
    /\ current_section = <<>>
    /\ in_narrative = FALSE
    /\ narrative_sections = <<>>
    /\ chunks = <<>>
    /\ ci = 1
    /\ unique_sections = <<>>
    /\ seen = {}
    /\ si = 1
    /\ result = <<>>
    /\ report = <<>>
    /\ error = "none"
    /\ \/ /\ sc = "form"
          /\ form_types \in SeqsUpTo(Forms, MaxForms)
          /\ max_filings \in 0..MaxFilings
          /\ ticker_arg \in {"", "TICK"}
          /\ converted_files = 0
       \/ /\ sc = "clean_all"
          /\ form_types = <<>>
          /\ max_filings = 0
          /\ ticker_arg = ""
          /\ converted_files \in 0..MaxFiles
    /\ fti = 1
    /\ ticker = ""
    /\ response = [kind |-> "none", forms |-> <<>>, zipped |-> 0]
    /\ filings = <<>>
    /\ fi = 1
    /\ files = {}
    /\ saved_files = <<>>
    /\ all_saved_files = <<>>
    /\ events = <<>>
    /\ failures = {}

\* the HTML listing is asked whatever the API returned
not_filings_ever(fs) == TRUE

\* if not filings
not_filings(fs) == fs = <<>>

\* execute_scraping: the next form type; its filings are asked of the API
GetFilingsApi ==
    /\ sc = "form"
    /\ fti <= Len(form_types)
    /\ \E resp \in ApiResponses :
          /\ response' = resp
          /\ filings' = get_filings_api(resp, form_types[fti], max_filings)
    /\ events' = events \o <<Sleep, Get("api", fti, 0)>>
    /\ ticker' = ticker_arg
    /\ saved_files' = <<>>
    /\ fi' = 1
    /\ sc' = "api_returned"
    /\ UNCHANGED << form_types, fti, max_filings, ticker_arg, files,
                    all_saved_files, failures, converted_files >>
    /\ UNCHANGED pipeline_vars

\* the API gave nothing: the HTML listing is asked
GetFilings ==
    /\ sc = "api_returned"
    /\ not_filings(filings)
    /\ \E resp \in ListingResponses :
          filings' = get_filings(resp, form_types[fti], max_filings)
    /\ events' = events \o <<Sleep, Get("listing", fti, 0)>>
    /\ response' = [kind |-> "none", forms |-> <<>>, zipped |-> 0]
    /\ sc' = "listed"
    /\ UNCHANGED << form_types, fti, max_filings, ticker_arg, ticker, fi, files,
                    saved_files, all_saved_files, failures, converted_files >>
    /\ UNCHANGED pipeline_vars

\* no filings from either source: the form type is given up
NoFilings ==
    /\ sc = "listed"
    /\ not_filings(filings)
    /\ fti' = fti + 1
    /\ sc' = "form"
    /\ UNCHANGED << form_types, max_filings, ticker_arg, ticker, response, filings,
                    fi, files, saved_files, all_saved_files, events, failures,
                    converted_files >>
    /\ UNCHANGED pipeline_vars

\* the loop over the filings begins
BeginFilings ==
    /\ sc \in {"api_returned", "listed"}
    /\ ~not_filings(filings)
    /\ response' = [kind |-> "none", forms |-> <<>>, zipped |-> 0]
    /\ sc' = "filing"
    /\ UNCHANGED << form_types, fti, max_filings, ticker_arg, ticker, filings, fi,
                    files, saved_files, all_saved_files, events, failures,
                    converted_files >>
    /\ UNCHANGED pipeline_vars

\* a filing without a URL is passed over
SkipFiling ==
    /\ sc = "filing"
    /\ fi <= Len(filings)
    /\ ~filings[fi].url
    /\ fi' = fi + 1
    /\ UNCHANGED << sc, form_types, fti, max_filings, ticker_arg, ticker, response,
                    filings, files, saved_files, all_saved_files, events,
                    failures, converted_files >>
    /\ UNCHANGED pipeline_vars

\* no ticker yet: get_company_tickers, which returns a dict whatever happens
GetCompanyTickers ==
    /\ sc = "filing"
    /\ fi <= Len(filings)
    /\ filings[fi].url
    /\ ticker = ""
    /\ ticker' \in {"TICK", "UNKNOWN", ""}
    /\ events' = events \o <<Sleep, Get("company", fti, fi)>>
    /\ sc' = "download"
    /\ UNCHANGED << form_types, fti, max_filings, ticker_arg, response, filings, fi,
                    files, saved_files, all_saved_files, failures,
                    converted_files >>
    /\ UNCHANGED pipeline_vars

\* download_document: the request, then the delay, then the temporary file
DownloadDocument ==
    /\ \/ sc = "download"
       \/ sc = "filing" /\ fi <= Len(filings) /\ filings[fi].url /\ ticker # ""
    /\ \E outcome \in {"refused", "unsaved", "partial", "saved"} :
          /\ events' = events \o
                 (IF outcome = "refused" THEN <<Get("download", fti, fi)>>
                  ELSE <<Get("download", fti, fi), Sleep>>)
          /\ files' = IF outcome \in {"partial", "saved"}
                      THEN files \cup {Temp(fti, fi)} ELSE files
          /\ IF outcome = "saved"
             THEN /\ sc' = "process"
                  /\ UNCHANGED << fi, failures >>
             ELSE /\ sc' = "filing"
                  /\ fi' = fi + 1
                  /\ failures' = failures \cup {"download"}
    /\ UNCHANGED << form_types, fti, max_filings, ticker_arg, ticker, response,
                    filings, saved_files, all_saved_files, converted_files >>
    /\ UNCHANGED pipeline_vars

\* the temporary file is read, its text extracted and written, the
\* temporary file removed; the handler removes it too
ProcessDocument ==
    /\ sc = "process"
    /\ \E outcome \in {"ok", "read", "extract", "write", "remove"},
          removal \in {"ok", "fails"} :
          /\ outcome = "ok" => removal = "ok"
          /\ saved_files' = IF outcome \in {"ok", "remove"}
                            THEN Append(saved_files, TextFile(fti, fi))
                            ELSE saved_files
          /\ files' = ((files \cup (IF outcome \in {"ok", "remove"}
                                    THEN {TextFile(fti, fi)} ELSE {}))
                       \ (IF removal = "ok" THEN {Temp(fti, fi)} ELSE {}))
          /\ failures' = failures
                 \cup (IF outcome = "ok" THEN {} ELSE {outcome})
                 \cup (IF removal = "fails" THEN {"remove"} ELSE {})
          /\ IF (outcome = "ok" \/ handled(outcome)) /\ removal = "ok"
             THEN sc' = "filing" /\ fi' = fi + 1
             ELSE sc' = "raised" /\ fi' = fi
    /\ UNCHANGED << form_types, fti, max_filings, ticker_arg, ticker, response,
                    filings, all_saved_files, events, converted_files >>
    /\ UNCHANGED pipeline_vars

\* the loop is over: the saved files join those of the earlier form types; a
\* ticker found outside scrape_10q_filings stays for the next form type
EndFilings ==
    /\ sc = "filing"
    /\ fi > Len(filings)
    /\ all_saved_files' = all_saved_files \o saved_files
    /\ ticker_arg' = IF form_types[fti] = "10-Q" THEN ticker_arg ELSE ticker
    /\ fti' = fti + 1
    /\ sc' = "form"
    /\ UNCHANGED << form_types, max_filings, ticker, response, filings, fi, files,
                    saved_files, events, failures, converted_files >>
    /\ UNCHANGED pipeline_vars

ReturnSavedFiles ==
    /\ sc = "form"
    /\ fti > Len(form_types)
    /\ sc' = "returned"
    /\ UNCHANGED << form_types, fti, max_filings, ticker_arg, ticker, response,
                    filings, fi, files, saved_files, all_saved_files, events,
                    failures, converted_files >>
    /\ UNCHANGED pipeline_vars

\* clean_all_converted_files: one listed file goes through
\* clean_financial_document, whose exceptions are printed
CleanListedFile ==
    /\ sc = "clean_all"
    /\ fi <= converted_files
    /\ \E outcome \in {"ok", "missing", "read", "write"} :
          /\ files' = IF outcome = "ok" THEN files \cup {<<"cleaned", 0, fi>>}
                      ELSE files
          /\ failures' = IF outcome = "ok" THEN failures
                         ELSE failures \cup {outcome}
    /\ fi' = fi + 1
    /\ UNCHANGED << sc, form_types, fti, max_filings, ticker_arg, ticker, response,
                    filings, saved_files, all_saved_files, events,
                    converted_files >>
    /\ UNCHANGED pipeline_vars

CleanAllReturns ==
    /\ sc = "clean_all"
    /\ fi > converted_files
    /\ sc' = "returned"
    /\ UNCHANGED << form_types, fti, max_filings, ticker_arg, ticker, response,
                    filings, fi, files, saved_files, all_saved_files, events,
                    failures, converted_files >>
    /\ UNCHANGED pipeline_vars

NextScrape ==
    \/ GetFilingsApi
    \/ GetFilings
    \/ NoFilings
    \/ BeginFilings
    \/ SkipFiling
    \/ GetCompanyTickers
    \/ DownloadDocument
    \/ ProcessDocument
    \/ EndFilings
    \/ ReturnSavedFiles
    \/ CleanListedFile
    \/ CleanAllReturns

SpecScrape == InitScrape /\ [][NextScrape]_vars

\* ------------------------------------------------------------------------
\* Properties of extract_narrative_sections and convert_xbrl_to_text
\* ------------------------------------------------------------------------

Returned == pc \in {"returned", "done", "raised"}

\* section[:200]
Prefix(section) == Take(section, PrefixLen)

\* the stripped paragraphs of t: maximal runs of lines that are not blank
Paragraphs(t) ==
    LET ls == Split(t)
        blank(k) == Strip(ls[k]) = <<>>
        starts == {k \in 1..Len(ls) : ~blank(k) /\ (k = 1 \/ blank(k - 1))}
        first == SortedIdx(starts, 1, Len(ls))
        last(s) == CHOOSE e \in s..Len(ls) :
                       /\ \A m \in s..e : ~blank(m)
                       /\ e = Len(ls) \/ blank(e + 1)
    IN [k \in 1..Len(first) |->
            Strip(Join(SubSeq(ls, first[k], last(first[k])), <<NL>>))]

\* the paragraphs the fallback of lines 92-102 is to add
QualifyingParagraphs(t) == SelectSeq(Paragraphs(t), ChunkQualifies)

\* C1: whatever the document, and also when reading it fails, the extractor
\* returns at most five sections.
AtMostFiveSections == Returned => Len(result) <= MaxSections

\* more than five different sections were found and five were returned
FiveOfMoreReturned ==
    /\ pc = "returned"
    /\ Len(unique_sections) > MaxSections
    /\ Len(result) = MaxSections

\* C2: every returned section is longer than 500 characters, whichever way
\* it was closed (a new trigger, a stop line, the line limit, the end of the
\* text) or added (the fallback).
SectionsLongerThanMinimum ==
    Returned => \A k \in 1..Len(result) : TLen(result[k]) > MinSectionLen

\* a section of the scan and a chunk of the fallback were returned together
ScanAndFallbackReturned ==
    /\ pc = "returned"
    /\ chunks # <<>>
    /\ \E a, b \in 1..Len(result) :
          /\ a < b
          /\ \A c \in 1..Len(chunks) : result[a] # Strip(chunks[c])
          /\ \E c \in 1..Len(chunks) : result[b] = Strip(chunks[c])

\* C3: no two returned sections have the same first 200 characters.
PrefixesDiffer ==
    Returned => \A a, b \in 1..Len(result) :
                   a < b => Prefix(result[a]) # Prefix(result[b])

\* at least two sections were returned after a candidate was dropped
ReturnedAfterDrop ==
    /\ pc = "returned"
    /\ Len(result) >= 2
    /\ Len(unique_sections) < Len(narrative_sections)

\* C4: the returned list is the first min(5, n) of the n deduplicated
\* candidates, in the order in which they were found.
FirstFoundFirstReturned ==
    (pc = "returned" /\ error = "none") =>
        LET found(section) ==
                CHOOSE j \in 1..Len(narrative_sections) :
                    /\ narrative_sections[j] = section
                    /\ \A m \in 1..(j - 1) : narrative_sections[m] # section
            n == Len(unique_sections)
        IN /\ Len(result) = (IF n < 5 THEN n ELSE 5)
           /\ \A k \in 1..Len(result) : result[k] = unique_sections[k]
           /\ \A a, b \in 1..Len(result) :
                  a < b => found(result[a]) < found(result[b])

\* a shorter section is returned before a longer one, later ones are cut off
ShorterReturnedFirst ==
    /\ pc = "returned"
    /\ Len(unique_sections) > Len(result)
    /\ TLen(result[1]) < TLen(result[2])

\* C5: the fallback runs exactly when the scan found fewer than three
\* sections; it then appends the qualifying chunks, in their order, after the
\* sections of the scan, and otherwise adds nothing.
FallbackBelowThreeOnly ==
    pc = "dedup" =>
        LET ran == chunks # <<>>
            added == QualifyingParagraphs(cleaned_content)
            scanned == Len(narrative_sections) - (IF ran THEN Len(added) ELSE 0)
        IN /\ scanned >= 0
           /\ ran <=> scanned < 3
           /\ ran => SubSeq(narrative_sections, scanned + 1,
                            Len(narrative_sections)) = added

\* a qualifying chunk follows a section of the scan
ChunkAfterScanSection ==
    /\ pc = "dedup"
    /\ chunks # <<>>
    /\ Len(narrative_sections) >= 2
    /\ narrative_sections[1] \notin Range(Paragraphs(cleaned_content))
    /\ narrative_sections[Len(narrative_sections)]
           \in Range(QualifyingParagraphs(cleaned_content))

\* C6: a candidate is kept if and only if no candidate kept before it has
\* the same 200-character prefix; the kept ones stay in their order.
KeptIffNoEarlierKept ==
    (pc = "returned" /\ error = "none") =>
        \E K \in SUBSET (1..Len(narrative_sections)) :
            /\ \A k \in 1..Len(narrative_sections) :
                  k \in K <=>
                      ~ \E j \in K : /\ j < k
                                     /\ Prefix(narrative_sections[j])
                                            = Prefix(narrative_sections[k])
            /\ unique_sections = Pick(narrative_sections, K)

\* the same section was found twice and emitted once
SameSectionTwice ==
    /\ pc = "returned"
    /\ Len(unique_sections) >= 2
    /\ \E j, k \in 1..Len(narrative_sections) :
          j < k /\ narrative_sections[j] = narrative_sections[k]
    /\ \A j, k \in 1..Len(unique_sections) :
          j < k => unique_sections[j] # unique_sections[k]

\* C7: when no section is found the extractor returns the empty list, no
\* report is written and convert_xbrl_to_text returns without raising.
NoSectionsNoReport ==
    (Returned /\ result = <<>>) =>
        /\ report = <<>>
        /\ pc # "raised"
        /\ error # "write"

\* a document that is not empty went through both passes and was skipped
NothingFoundSkipped ==
    /\ pc = "done"
    /\ error = "none"
    /\ file_content # <<>>
    /\ chunks # <<>>
    /\ result = <<>>
    /\ report = <<>>

\* C8: a document without both markers reaches the cleaner unchanged.
UnmarkedDocumentUnchanged ==
    (/\ pc \in {"clean", "cleaning"}
     /\ ~ (Contains(file_content, DocOpen) /\ Contains(file_content, DocClose)))
        => /\ content = file_content
           /\ pc = "cleaning" => html_text = file_content

\* only the opening marker is there, after some other text
OpeningMarkerOnly ==
    /\ pc = "cleaning"
    /\ Find(file_content, DocOpen) > 0
    /\ ~Contains(file_content, DocClose)
    /\ html_text = file_content

\* C9 as stated: with both markers, wherever they are, the isolated text
\* begins with the opening marker and is the text from it up to the closing
\* marker.
IsolatedBetweenMarkers ==
    (/\ pc = "clean"
     /\ Contains(file_content, DocOpen)
     /\ Contains(file_content, DocClose))
        => /\ Take(content, Len(DocOpen)) = Str(DocOpen)
           /\ content = Slice(file_content, Find(file_content, DocOpen),
                              Find(file_content, DocClose))

\* C9: with both markers, if the first opening marker comes before the first
\* closing marker the isolated text is the text from the former up to, and
\* without, the latter; if the closing marker comes first it is empty.
IsolatedBetweenOrderedMarkers ==
    (/\ pc = "clean"
     /\ Contains(file_content, DocOpen)
     /\ Contains(file_content, DocClose))
        => LET start == Find(file_content, DocOpen)
               end == Find(file_content, DocClose)
           IN IF start < end
              THEN /\ Take(content, Len(DocOpen)) = Str(DocOpen)
                   /\ TLen(content) = end - start
                   /\ content = Take(Drop(file_content, start), end - start)
                   /\ ~Contains(content, DocClose)
              ELSE content = <<>>

\* text before the opening marker and the closing marker were cut away
HeaderAndTrailerCut ==
    /\ pc = "clean"
    /\ 0 < Find(file_content, DocOpen)
    /\ Find(file_content, DocOpen) < Find(file_content, DocClose)
    /\ content # file_content
    /\ content # <<>>

\* C10: cleaning the output of clean_html_content again changes nothing.
CleaningTwiceIsCleaningOnce == pc = "compared" => text = first_output

\* the entities that lines 46-55 decode
EnumeratedEntities ==
    { <<"&","n","b","s","p",";">>, <<"&","a","m","p",";">>, <<"&","l","t",";">>,
      <<"&","g","t",";">>, <<"&","q","u","o","t",";">>, <<"&","a","p","o","s",";">>,
      <<"&","#","1","6","0",";">>, <<"&","#","8","2","1","7",";">>,
      <<"&","#","8","2","1","1",";">>, <<"&","#","8","2","1","2",";">>  }

\* the lines of a cleaned text; the empty text has none
LinesOf(t) == IF t = <<>> THEN <<>> ELSE Split(t)

\* C11: no line of the text clean_html_content returns is empty or
\* whitespace-only, holds a tag "<...>" or holds one of the enumerated
\* entities.
CleanedTextInvariant ==
    cpc = "return" =>
        \A k \in 1..Len(LinesOf(text)) :
            LET line == LinesOf(text)[k]
            IN /\ Strip(line) # <<>>
               /\ ~ \E a \in 1..Len(line) :
                      line[a][1] = "<" /\ FirstAt(line, ">", a + 1) # 0
               /\ \A e \in EnumeratedEntities : ~Contains(line, e)

\* C13: a failure to read the source or to write the report reaches the
\* driver as a failure: the conversion neither ends as it does for a document
\* without sections nor with an exception nobody catches.
IOFailureReachesDriver == error # "none" => pc \notin {"done", "raised"}

\* C14: the report of N sections is the header and the banner, then N
\* blocks labelled 1..N in increasing order, block k with the whole text of
\* the k-th section.
ReportHoldsEverySection ==
    (pc = "done" /\ result # <<>>) =>
        /\ Len(report) = 6 + 4 * Len(result)
        /\ [k \in 1..6 |-> report[k].kind]
               = <<"source", "rule", "blank", "banner", "rule", "blank">>
        /\ \A k \in 1..Len(result) :
              /\ report[4 * k + 3] = [kind |-> "label", number |-> k]
              /\ report[4 * k + 4].kind = "rule"
              /\ report[4 * k + 5] = [kind |-> "text", text |-> result[k]]
              /\ report[4 * k + 6].kind = "blank"

\* a report of several sections, one of them of several lines
ReportOfSeveralSections ==
    /\ pc = "done"
    /\ Len(result) >= 2
    /\ report # <<>>
    /\ \E k \in 1..Len(result) : Contains(result[k], <<"\n">>)

\* C15 as stated: the cleaner is applied to the raw document and has
\* returned when the isolation takes place.
StripperBeforeIsolator ==
    /\ pc = "cleaning" => html_text = file_content
    /\ pc = "isolate" => cpc = "return"

\* C15: the isolation is applied to the raw document, the cleaner to what
\* the isolation returns, the scan to what the cleaner returns and the report
\* is written from what the extraction returns.
IsolatorBeforeStripper ==
    LET both == /\ Contains(file_content, DocOpen)
                /\ Contains(file_content, DocClose)
        body == IF both
                THEN Slice(file_content, Find(file_content, DocOpen),
                           Find(file_content, DocClose))
                ELSE file_content
    IN /\ pc = "isolate" => content = file_content /\ cpc = "idle"
       /\ pc = "cleaning" => html_text = body
       /\ pc \in {"scan", "fallback", "chunks", "dedup"} => cleaned_content = text
       /\ (pc = "scan" /\ i = 1) \/ pc = "fallback" =>
              /\ html_text = body
              /\ lines = Split(text)
       /\ (pc = "done" /\ report # <<>>) =>
              \A k \in 1..Len(result) : report[4 * k + 5].text = result[k]

\* a report was written from a document whose envelope the isolation removed
ReportWithoutEnvelope ==
    /\ pc = "done"
    /\ report # <<>>
    /\ html_text # file_content

\* a step of the scan over a line that is not empty
ScansLine(line) ==
    /\ pc = "scan"
    /\ i <= Len(lines)
    /\ i' = i + 1
    /\ line = Strip(lines[i])
    /\ line # <<>>

HasTrigger(line) == AnyIn(narrative_keywords, Lower(line))

HasStop(line) == AnyIn(stop_words, Lower(line))

\* C18: on a line with a trigger keyword, whatever the state and whether or
\* not the line also has a stop keyword, the buffer is emitted iff the scan
\* is accumulating and the joined buffer is longer than 500 characters;
\* afterwards the buffer is this line alone and the scan is accumulating.
TriggerTransition ==
    [][\A line \in {Strip(lines[k]) : k \in {i} \cap (1..Len(lines))} :
          (ScansLine(line) /\ HasTrigger(line)) =>
              /\ narrative_sections' =
                    IF in_narrative /\ TLen(Join(current_section, <<SP>>)) > 500
                    THEN Append(narrative_sections, Join(current_section, <<SP>>))
                    ELSE narrative_sections
              /\ current_section' = <<line>>
              /\ in_narrative']_vars

\* a line with a trigger and a stop keyword has closed and emitted a section
\* and started the next one
TriggerWithStopKeyword ==
    /\ pc = "scan"
    /\ i \in 2..(Len(lines) + 1)
    /\ HasTrigger(Strip(lines[i - 1]))
    /\ HasStop(Strip(lines[i - 1]))
    /\ current_section = <<Strip(lines[i - 1])>>
    /\ in_narrative
    /\ Len(narrative_sections) = 1

\* C19: on a line without trigger keyword while accumulating, the line is
\* appended; if the buffer then has more than 50 lines or the line has a stop
\* keyword, the buffer is emitted iff its joined text is longer than 500
\* characters, the buffer is cleared and the scan is idle; otherwise the scan
\* stays accumulating and emits nothing.
AccumulatingTransition ==
    [][\A line \in {Strip(lines[k]) : k \in {i} \cap (1..Len(lines))} :
          (ScansLine(line) /\ ~HasTrigger(line) /\ in_narrative) =>
              LET buffer == Append(current_section, line)
              IN IF Len(buffer) > 50 \/ HasStop(line)
                 THEN /\ narrative_sections' =
                            IF TLen(Join(buffer, <<SP>>)) > 500
                            THEN Append(narrative_sections, Join(buffer, <<SP>>))
                            ELSE narrative_sections
                      /\ current_section' = <<>>
                      /\ ~in_narrative'
                 ELSE /\ current_section' = buffer
                      /\ in_narrative'
                      /\ narrative_sections' = narrative_sections]_vars

\* the 51st line of a buffer, not a stop line, has closed and emitted it
ClosedByLineLimit ==
    /\ pc = "scan"
    /\ i \in 52..(Len(lines) + 1)
    /\ ~in_narrative
    /\ current_section = <<>>
    /\ Len(narrative_sections) = 1
    /\ HasTrigger(Strip(lines[i - 51]))
    /\ \A k \in (i - 50)..(i - 1) :
          /\ Strip(lines[k]) # <<>>
          /\ ~HasTrigger(Strip(lines[k]))
          /\ ~HasStop(Strip(lines[k]))

\* C20: a line without trigger keyword that arrives while the scan is idle
\* changes neither the emitted sections nor the buffer nor the state.
IdleLineIgnored ==
    [][\A line \in {Strip(lines[k]) : k \in {i} \cap (1..Len(lines))} :
          (ScansLine(line) /\ ~HasTrigger(line) /\ ~in_narrative) =>
              /\ narrative_sections' = narrative_sections
              /\ current_section' = current_section
              /\ current_section = <<>>
              /\ ~in_narrative']_vars

\* a long line with a fallback keyword arrived after a stop line had closed
\* a section, and was ignored
IdleLineAfterClose ==
    /\ pc = "scan"
    /\ i \in 3..(Len(lines) + 1)
    /\ ~in_narrative
    /\ current_section = <<>>
    /\ Len(narrative_sections) = 1
    /\ HasStop(Strip(lines[i - 2]))
    /\ ~HasTrigger(Strip(lines[i - 2]))
    /\ ~HasTrigger(Strip(lines[i - 1]))
    /\ TLen(Strip(lines[i - 1])) > MinSectionLen

\* ------------------------------------------------------------------------
\* Properties of the scraper's batch and of clean_all_converted_files
\* ------------------------------------------------------------------------

ListedFailures == {"download", "read", "extract", "write", "missing"}

\* the filings of the form type whose download was requested
Attempted(form) ==
    {events[k].filing :
        k \in {j \in 1..Len(events) :
                  events[j].what = "download" /\ events[j].form = form}}

\* the filings among the first n that have a URL
WithUrl(n) == {k \in 1..n : k <= Len(filings) /\ filings[k].url}

\* C12: whatever download, read, extraction and write failures (and, in
\* clean_all_converted_files, missing files) have happened, the batch has not
\* raised, every filing with a URL before the one at hand has had its
\* download requested, and the batch returns only after the last filing (or
\* file) of the last form type
BatchSurvivesFailures ==
    failures \subseteq ListedFailures =>
        /\ sc # "raised"
        /\ sc \in {"filing", "download"} => Attempted(fti) = WithUrl(fi - 1)
        /\ sc = "process" => Attempted(fti) = WithUrl(fi)
        /\ sc = "returned" =>
              /\ fti > Len(form_types)
              /\ fi > converted_files
              /\ fi > Len(filings)
              /\ Attempted(fti - 1) = WithUrl(Len(filings))

\* C12 witness: the first filing's document could not be read, the second
\* was saved, and the batch returned
SavedAfterFailedFiling ==
    /\ sc = "returned"
    /\ failures = {"read"}
    /\ Len(filings) = 2
    /\ saved_files = <<TextFile(1, 2)>>

\* C16: get_filings_api has returned a list whenever the registry has
\* answered; the list is empty unless the answer was well formed, it has at
\* most max_filings entries, each of the requested form type, and they are
\* entries of the answer in the answer's order
ApiFilingsWithinRequest ==
    /\ response.kind # "none" => sc = "api_returned"
    /\ sc = "api_returned" =>
          /\ response.kind # "ok" => filings = <<>>
          /\ Len(filings) <= max_filings
          /\ \A k \in 1..Len(filings) :
                /\ filings[k].form = form_types[fti]
                /\ filings[k].entry \in 1..Len(response.forms)
                /\ response.forms[filings[k].entry] = filings[k].form
          /\ \A j, k \in 1..Len(filings) :
                j < k => filings[j].entry < filings[k].entry

\* C16 witness: the answer holds another form type and more filings of the
\* requested one than max_filings
ApiFilingsCutAtMaximum ==
    /\ sc = "api_returned"
    /\ response.kind = "ok"
    /\ max_filings > 0
    /\ Len(filings) = max_filings
    /\ \E k \in 1..Len(response.forms) : response.forms[k] # form_types[fti]
    /\ \E k \in 1..response.zipped :
          /\ response.forms[k] = form_types[fti]
          /\ k > filings[Len(filings)].entry

\* C17: no request follows another request without a delay between them
RequestsSpacedByDelay ==
    \A k \in 1..(Len(events) - 1) :
        ~(events[k].kind = "get" /\ events[k + 1].kind = "get")

\* ------------------------------------------------------------------------
\* Properties of the end of the scan, of whole documents and of the
\* scan's two states
\* ------------------------------------------------------------------------

\* C21: when the scan leaves the last line, the buffer is emitted as the
\* next section iff the scan is accumulating and the joined buffer is longer
\* than 500 characters; a scan that is idle emits nothing.  The sections of
\* the fallback are appended after those of the scan.
EndOfScanFlush ==
    [][(pc = "scan" /\ i > Len(lines)) =>
          /\ pc' = "fallback"
          /\ narrative_sections' =
                IF in_narrative /\ TLen(Join(current_section, <<SP>>)) > 500
                THEN Append(narrative_sections, Join(current_section, <<SP>>))
                ELSE narrative_sections
          /\ chunks' = chunks]_vars

\* C21 witness: one section was closed by a stop keyword, the next one was
\* still open after the last line and has been emitted
OpenSectionFlushed ==
    /\ pc = "fallback"
    /\ in_narrative
    /\ Len(narrative_sections) = 2
    /\ narrative_sections[2] = Join(current_section, <<SP>>)
    /\ HasStop(Strip(lines[Len(lines) - 1]))

\* the stripped lines of the cleaned text that are not empty
BodyLines ==
    LET stripped == [k \in 1..Len(lines) |-> Strip(lines[k])]
    IN SelectSeq(stripped, LAMBDA line : line # <<>>)

RiskFactors == <<"r","i","s","k"," ","f","a","c","t","o","r","s">>

\* line t of ls has 'risk factors', header lines without trigger keywords
\* come before it, and more than 500 characters of lines without trigger or
\* stop keywords after it
SingleTriggerAt(ls, t) ==
    /\ t \in 2..Len(ls)
    /\ Contains(Lower(ls[t]), RiskFactors)
    /\ \A k \in 1..(t - 1) : ~HasTrigger(ls[k])
    /\ \A k \in (t + 1)..Len(ls) : ~HasTrigger(ls[k]) /\ ~HasStop(ls[k])
    /\ TLen(Join(SubSeq(ls, t + 1, Len(ls)), <<SP>>)) > 500

\* the extractor has returned from a document wrapped in the markers
WrappedDocumentReturned ==
    /\ pc = "returned"
    /\ error = "none"
    /\ Take(file_content, 10) = Str(DocOpen)
    /\ Drop(file_content, TLen(file_content) - 11) = Str(DocClose)

\* the trigger line and the up to 50 lines after it
TriggerBuffer(ls, t) ==
    SubSeq(ls, t, IF t + 50 <= Len(ls) THEN t + 50 ELSE Len(ls))

\* C22 as stated: from a wrapped document with a header, one 'risk factors'
\* line and more than 500 characters of text after it, the cleaner is given
\* the body and exactly one section is returned, which starts with the
\* 'risk factors' line
SingleTriggerSingleSection ==
    WrappedDocumentReturned =>
        \A t \in 1..Len(BodyLines) :
            SingleTriggerAt(BodyLines, t) =>
                /\ html_text = Take(file_content, TLen(file_content) - 11)
                /\ Len(result) = 1
                /\ Take(result[1], TLen(BodyLines[t])) = BodyLines[t]

\* C22: the same holds when, in addition, the 'risk factors' line and the
\* up to 50 lines after it have more than 500 characters together and no
\* paragraph of the cleaned text qualifies as a fallback chunk; the section
\* is then those lines joined by spaces
SingleTriggerSectionWithinLimits ==
    WrappedDocumentReturned =>
        \A t \in 1..Len(BodyLines) :
            ( /\ SingleTriggerAt(BodyLines, t)
              /\ TLen(Join(TriggerBuffer(BodyLines, t), <<SP>>)) > 500
              /\ QualifyingParagraphs(cleaned_content) = <<>> ) =>
                /\ html_text = Take(file_content, TLen(file_content) - 11)
                /\ result = <<Join(TriggerBuffer(BodyLines, t), <<SP>>)>>
                /\ Take(result[1], TLen(BodyLines[t])) = BodyLines[t]

\* C22 witness: the text after the 'risk factors' line is on two lines and
\* one section of the three lines has been returned
RiskFactorsSectionReturned ==
    /\ WrappedDocumentReturned
    /\ Len(BodyLines) = 4
    /\ SingleTriggerAt(BodyLines, 2)
    /\ HasStop(BodyLines[2])
    /\ result = <<Join(SubSeq(BodyLines, 2, 4), <<SP>>)>>

\* the step ends with a request of the HTML listing
ListingRequested ==
    /\ Len(events') > Len(events)
    /\ events'[Len(events')].what = "listing"

\* C23: the first request for a form type is the API's; the HTML listing is
\* requested exactly by the step that follows an empty list from the API;
\* and when the listing is empty too the form type is left with no download
\* requested and no file saved.  The form types are taken one by one.
ApiFirstThenListing ==
    [][/\ (sc = "form" /\ sc' # "returned") =>
              /\ events' = events \o <<Sleep, Get("api", fti, 0)>>
              /\ \A k \in 1..Len(events) : events[k].form # fti
       /\ ListingRequested <=> (sc = "api_returned" /\ filings = <<>>)
       /\ (sc = "listed" /\ filings = <<>>) =>
              /\ Attempted(fti) = {}
              /\ events' = events
              /\ all_saved_files' = all_saved_files
              /\ files' = files
              /\ fti' = fti + 1
              /\ sc' = "form"
       /\ fti' \in {fti, fti + 1}]_vars

\* C23 witness: the API and the listing both gave nothing for the only
\* form type and the batch returned without a download
NothingFromEitherSource ==
    /\ sc = "returned"
    /\ Len(form_types) = 1
    /\ events = <<Sleep, Get("api", 1, 0), Sleep, Get("listing", 1, 0)>>
    /\ all_saved_files = <<>>
    /\ files = {}

\* the text is a trigger line of ls and up to 50 of the lines after it,
\* joined by spaces
IsTriggerRun(section, ls) ==
    \E a \in 1..Len(ls) :
        /\ HasTrigger(ls[a])
        /\ \E b \in a..(IF a + 50 <= Len(ls) THEN a + 50 ELSE Len(ls)) :
              section = Join(SubSeq(ls, a, b), <<SP>>)

\* C24: the scan is accumulating iff the buffer is not empty; the buffer has
\* at most 50 lines between two steps and its first line has a trigger
\* keyword; and every section of the scan is a trigger line followed by at
\* most 50 of the next non-empty lines
TwoStateScan ==
    /\ in_narrative <=> current_section # <<>>
    /\ Len(current_section) <= 50
    /\ current_section # <<>> => HasTrigger(current_section[1])
    /\ pc = "fallback" =>
          \A k \in 1..Len(narrative_sections) :
              IsTriggerRun(narrative_sections[k], BodyLines)

\* C24 witness: between two steps the buffer holds a trigger line and 49
\* lines more
BufferOfFiftyLines ==
    /\ pc = "scan"
    /\ i <= Len(lines)
    /\ in_narrative
    /\ Len(current_section) = 50

\* the filings of the form type whose text file is in output_dir
TextSaved(form) == {k \in 1..MaxEntries : TextFile(form, k) \in files}

\* C25: when the loop over the filings of a form type has returned after
\* download, read, extraction and write failures only, no temporary file of
\* that form type is left in output_dir and saved_files holds, in filing
\* order and once each, the text files that were written
NoTemporaryFileLeft ==
    ( /\ sc \in {"form", "returned"}
      /\ fti > 1
      /\ failures \subseteq {"download", "read", "extract", "write"} ) =>
        /\ \A k \in 1..MaxEntries : Temp(fti - 1, k) \notin files
        /\ saved_files =
              [j \in 1..Cardinality(TextSaved(fti - 1)) |->
                  TextFile(fti - 1, SortedIdx(TextSaved(fti - 1), 1, MaxEntries)[j])]

====
